---- MODULE Spec2Model ----
(***************************************************************************)
(* A model of the deterministic single-tape Turing machine engine of       *)
(* src/TuringMachine.py and src/constants.py, and of the handlers of its   *)
(* window, src/TuringMachinGUI.py.                                         *)
(*                                                                         *)
(* Python strings are sequences of one-character strings, so that          *)
(* str.strip / str.split / f-string formatting are modelled by what they   *)
(* do.  A Python dict is a sequence of [key, value] records in insertion   *)
(* order.  An Optional value is a sequence of length 0 (None) or 1.        *)
(* Lists are values: the tape.copy() of get_state_info, load_tape and      *)
(* step_back is the value itself.                                          *)
(*                                                                         *)
(* A reference to a machine object other than TuringMachineGUI.machine is   *)
(* an Optional too: <<>> when it refers to that same object, else <<object>>.*)
(*                                                                         *)
(* Spec: a caller that makes up to MaxCalls calls of the public methods.   *)
(* SpecCap: a caller that steps and undoes a toggling program until the    *)
(* history has reached MAX_HISTORY_LEN and entries are evicted.            *)
(* SpecRun: a caller that builds a program over 0, 1 and blank and runs it.*)
(* SpecFile: a caller that saves and loads its active machine.             *)
(* SpecParse: Transition.from_str and to_str on every short text.          *)
(* SpecQuery: a caller that adds transitions and asks for the known states *)
(* and symbols.                                                            *)
(* SpecGui: a user of the window of src/TuringMachinGUI.py.                *)
(* SpecLifo: a caller that takes k steps and then k undos, at history      *)
(* lengths up to MAX_HISTORY_LEN.                                          *)
(* SpecFail: a caller that makes a step fail with InvalidStateError, at    *)
(* history lengths up to MAX_HISTORY_LEN.                                  *)
(* SpecAuto: a user of Run/Pause, Step and Step Back while the auto_run    *)
(* timer callbacks fire.                                                   *)
(***************************************************************************)
EXTENDS Integers, Sequences, FiniteSets, TLC

VARIABLES
    machine,    \* the TuringMachine object (all its attributes)
    op,         \* the method the caller invoked last
    args,       \* the arguments of that call
    result,     \* what that call returned ("0", "1", "None") or raised; the
                \* returned value itself for from_str and to_str (SpecParse)
    pre,        \* the TuringMachine object as it was when that call started
    trail,      \* <<>>, or <<[info, steps]>>: the state save_tape captured last
                \* and the steps taken since, while only run_transition, run
                \* and load_tape have been called since
    calls,      \* how many calls the caller has made
    gui,        \* the TuringMachineGUI object's attributes, its machine excepted:
                \* machine is the object TuringMachineGUI.machine refers to
    file        \* the program file on disk: <<>> (none) or <<document>>

vars == <<machine, op, args, result, pre, trail, calls, gui, file>>

(***************************************************************************)
(* Bounds of the model.                                                    *)
(***************************************************************************)
MaxCalls == 6       \* the caller makes at most MaxCalls calls
MaxRun == 3         \* run() is followed for at most MaxRun + 1 steps
CapExtra == 2       \* steps taken beyond MAX_HISTORY_LEN (SpecCap)
MaxLen == 6         \* the longest instruction text handed to from_str (SpecParse)

(***************************************************************************)
(* Python strings used by the model.                                       *)
(***************************************************************************)
q0 == <<"q", "0">>
q1 == <<"q", "1">>
q2 == <<"q", "2">>
ONE == <<"1">>
ZERO == <<"0">>
LETTER_A == <<"a">>
Whitespace == {" ", "\t"}

(***************************************************************************)
(* constants.py                                                            *)
(***************************************************************************)
BLANK_SYMBOL == <<"_">>
LEFT_END == 0
MAX_HISTORY_LEN == 1000

LEFT == <<"<">>
RIGHT == <<">">>
STOP == <<"!">>
STAY == <<".">>
\* Direction.ALL.value: the list of the four tokens
ALL == <<LEFT, RIGHT, STOP, STAY>>

\* Direction(token): the enum member whose value is the token
Direction(token) ==
    CASE token = LEFT -> "LEFT"
      [] token = RIGHT -> "RIGHT"
      [] token = STOP -> "STOP"
      [] token = STAY -> "STAY"

\* member.value
DirectionValue(d) ==
    CASE d = "LEFT" -> LEFT
      [] d = "RIGHT" -> RIGHT
      [] d = "STOP" -> STOP
      [] d = "STAY" -> STAY

\* Direction._VALUE_INT_MAPPING.value[self.value]
to_int(d) ==
    CASE DirectionValue(d) = LEFT -> -1
      [] DirectionValue(d) = RIGHT -> 1
      [] DirectionValue(d) = STAY -> 0
      [] DirectionValue(d) = STOP -> 0

\* the Transition dataclass
Transition(next_state, write_symbol, direction) ==
    [next_state |-> next_state, write_symbol |-> write_symbol, direction |-> direction]

\* the StateInfo dataclass
StateInfo(current_state, head_position, tape, step_count) ==
    [current_state |-> current_state, head_position |-> head_position,
     tape |-> tape, step_count |-> step_count]

(***************************************************************************)
(* str.strip(), str.split() and the f-string of Transition.to_str          *)
(***************************************************************************)
RECURSIVE lstrip(_)
lstrip(s) ==
    IF s # <<>> /\ Head(s) \in Whitespace THEN lstrip(Tail(s)) ELSE s

RECURSIVE rstrip(_)
rstrip(s) ==
    IF s # <<>> /\ s[Len(s)] \in Whitespace
    THEN rstrip(SubSeq(s, 1, Len(s) - 1))
    ELSE s

strip(s) == rstrip(lstrip(s))

RECURSIVE SplitAcc(_, _, _)
SplitAcc(s, word, acc) ==
    IF s = <<>>
    THEN IF word = <<>> THEN acc ELSE Append(acc, word)
    ELSE IF Head(s) \in Whitespace
         THEN SplitAcc(Tail(s), <<>>, IF word = <<>> THEN acc ELSE Append(acc, word))
         ELSE SplitAcc(Tail(s), Append(word, Head(s)), acc)

\* str.split() with no separator: the maximal runs of non-whitespace
split(s) == SplitAcc(s, <<>>, <<>>)

\* to_str that puts the next state first
to_str_state_first(t) ==
    t.next_state \o <<" ">> \o t.write_symbol \o <<" ">> \o DirectionValue(t.direction)

\* f'{self.write_symbol} {self.next_state} {self.direction.value}'
to_str(t) ==
    t.write_symbol \o <<" ">> \o t.next_state \o <<" ">> \o DirectionValue(t.direction)

InSeq(x, s) == \E i \in 1..Len(s) : s[i] = x

NoTransition == Transition(<<>>, <<>>, "STAY")

\* Transition.from_str: exc names the exception raised ("None": it returned value)
from_str(data) ==
    LET toks == split(strip(data)) IN
    IF Len(toks) # 3
    THEN [exc |-> "ValueError", value |-> NoTransition]
    ELSE IF ~InSeq(toks[3], ALL)
         THEN [exc |-> "InvalidDirectionError", value |-> NoTransition]
         ELSE [exc |-> "None",
               value |-> Transition(toks[2], toks[1], Direction(toks[3]))]

(***************************************************************************)
(* Python dict: insertion-ordered sequence of [key, value]                 *)
(***************************************************************************)
HasKey(d, k) == \E i \in 1..Len(d) : d[i].key = k

Get(d, k) == d[CHOOSE i \in 1..Len(d) : d[i].key = k].value

\* d[k] = v
Put(d, k, v) ==
    IF HasKey(d, k)
    THEN [i \in 1..Len(d) |-> IF d[i].key = k THEN [key |-> k, value |-> v] ELSE d[i]]
    ELSE Append(d, [key |-> k, value |-> v])

\* list(d.keys())
Keys(d) == [i \in 1..Len(d) |-> d[i].key]

(***************************************************************************)
(* TuringMachine                                                           *)
(***************************************************************************)
\* TuringMachine.__init__
TuringMachine ==
    [current_state |-> q0,
     states |-> << [key |-> q0, value |-> <<>>] >>,
     tape |-> <<BLANK_SYMBOL>>,
     head_position |-> LEFT_END,
     step_count |-> 0,
     saved_state |-> <<>>,
     symbols |-> {BLANK_SYMBOL},
     history |-> <<>>]

\* Every method below maps the object m to [m |-> the object afterwards,
\* ret |-> "0" | "1" | "None" for a return, or the name of the exception raised].

\* new_transition that adds the instruction's write symbol to the known
\* symbols as well
new_transition_adds_written(m, state, symbol, instruction) ==
    LET parsed == from_str(instruction) IN
    IF parsed.exc # "None"
    THEN [m |-> m, ret |-> "InvalidTransitionError"]
    ELSE LET row == IF HasKey(m.states, state) THEN Get(m.states, state) ELSE <<>>
         IN [m |-> [m EXCEPT !.states = Put(m.states, state, Put(row, symbol, parsed.value)),
                             !.symbols = m.symbols \cup {symbol, parsed.value.write_symbol}],
             ret |-> "None"]

\* new_transition that creates the state's row before it parses the instruction
new_transition_creates_row_first(m, state, symbol, instruction) ==
    LET parsed == from_str(instruction)
        row == IF HasKey(m.states, state) THEN Get(m.states, state) ELSE <<>>
    IN IF parsed.exc # "None"
       THEN [m |-> [m EXCEPT !.states = Put(m.states, state, row)],
             ret |-> "InvalidTransitionError"]
       ELSE [m |-> [m EXCEPT !.states = Put(m.states, state, Put(row, symbol, parsed.value)),
                             !.symbols = m.symbols \cup {symbol}],
             ret |-> "None"]

\* TuringMachine.new_transition
new_transition(m, state, symbol, instruction) ==
    LET parsed == from_str(instruction) IN
    IF parsed.exc # "None"
    THEN [m |-> m, ret |-> "InvalidTransitionError"]
    ELSE LET row == IF HasKey(m.states, state) THEN Get(m.states, state) ELSE <<>>
         IN [m |-> [m EXCEPT !.states = Put(m.states, state, Put(row, symbol, parsed.value)),
                             !.symbols = m.symbols \cup {symbol}],
             ret |-> "None"]

\* set_tape that also starts the step count and the history afresh
set_tape_resets_run(m, s) ==
    [m |-> [m EXCEPT !.tape = IF s = <<>> THEN <<BLANK_SYMBOL>> ELSE s,
                     !.current_state = q0,
                     !.head_position = LEFT_END,
                     !.step_count = 0,
                     !.history = <<>>],
     ret |-> "None"]

\* set_tape that keeps an empty list as the tape
set_tape_keeps_empty(m, s) ==
    [m |-> [m EXCEPT !.tape = s,
                     !.current_state = q0,
                     !.head_position = LEFT_END],
     ret |-> "None"]

\* TuringMachine.set_tape
set_tape(m, s) ==
    [m |-> [m EXCEPT !.tape = IF s = <<>> THEN <<BLANK_SYMBOL>> ELSE s,
                     !.current_state = q0,
                     !.head_position = LEFT_END],
     ret |-> "None"]

\* TuringMachine.get_state_info
get_state_info(m) ==
    StateInfo(m.current_state, m.head_position, m.tape, m.step_count)

\* TuringMachine.current_symbol; head_position is 0-based
current_symbol(m) == m.tape[m.head_position + 1]

\* _move_head that extends the tape with a copy of the cell the head leaves
move_head_copies_edge(m, direction) ==
    LET h1 == m.head_position + to_int(direction)
        m1 == IF h1 = -1
              THEN [m EXCEPT !.tape = <<m.tape[1]>> \o m.tape,
                             !.head_position = LEFT_END]
              ELSE [m EXCEPT !.head_position = h1]
    IN IF m1.head_position = Len(m1.tape)
       THEN [m1 EXCEPT !.tape = Append(m1.tape, m1.tape[Len(m1.tape)])]
       ELSE m1

\* _move_head that extends the tape on the right when the head leaves it on
\* the left
move_head_extends_right(m, direction) ==
    LET h1 == m.head_position + to_int(direction)
        m1 == IF h1 = -1
              THEN [m EXCEPT !.tape = Append(m.tape, BLANK_SYMBOL),
                             !.head_position = LEFT_END]
              ELSE [m EXCEPT !.head_position = h1]
    IN IF m1.head_position = Len(m1.tape)
       THEN [m1 EXCEPT !.tape = Append(m1.tape, BLANK_SYMBOL)]
       ELSE m1

\* TuringMachine._move_head
move_head(m, direction) ==
    LET h1 == m.head_position + to_int(direction)
        m1 == IF h1 = -1
              THEN [m EXCEPT !.tape = <<BLANK_SYMBOL>> \o m.tape,
                             !.head_position = LEFT_END]
              ELSE [m EXCEPT !.head_position = h1]
    IN IF m1.head_position = Len(m1.tape)
       THEN [m1 EXCEPT !.tape = Append(m1.tape, BLANK_SYMBOL)]
       ELSE m1

\* a history push that evicts the two oldest entries when the cap is exceeded
push_history_evicts_two(m) ==
    LET h == Append(m.history, get_state_info(m)) IN
    [m EXCEPT !.history = IF Len(h) > MAX_HISTORY_LEN THEN Tail(Tail(h)) ELSE h]

\* a history push that evicts the newest entry instead of the oldest
push_history_drops_newest(m) ==
    LET h == Append(m.history, get_state_info(m)) IN
    [m EXCEPT !.history = IF Len(h) > MAX_HISTORY_LEN
                          THEN SubSeq(h, 1, Len(h) - 1)
                          ELSE h]

\* the history push of run_transition
push_history(m) ==
    LET h == Append(m.history, get_state_info(m)) IN
    [m EXCEPT !.history = IF Len(h) > MAX_HISTORY_LEN THEN Tail(h) ELSE h]

\* _set_state that assigns the state without looking it up in the table
set_state_unchecked(m, state) ==
    [m |-> [m EXCEPT !.current_state = state], ret |-> "None"]

\* TuringMachine._set_state
set_state(m, state) ==
    IF ~HasKey(m.states, state)
    THEN [m |-> m, ret |-> "InvalidStateError"]
    ELSE [m |-> [m EXCEPT !.current_state = state], ret |-> "None"]

\* an execution of the instruction that checks the next state before it writes
execute_instruction_checks_first(m, instruction) ==
    LET s == set_state(m, instruction.next_state) IN
    IF s.ret # "None"
    THEN s
    ELSE [m |-> [s.m EXCEPT !.tape[m.head_position + 1] = instruction.write_symbol,
                            !.step_count = s.m.step_count + 1],
          ret |-> "None"]

\* run_transition, the instruction's execution: the tape write, _set_state and
\* the step count
execute_instruction(m, instruction) ==
    LET m1 == [m EXCEPT !.tape[m.head_position + 1] = instruction.write_symbol]
        s == set_state(m1, instruction.next_state)
    IN IF s.ret # "None"
       THEN s
       ELSE [m |-> [s.m EXCEPT !.step_count = s.m.step_count + 1], ret |-> "None"]

\* an end of the step that takes every direction with delta 0 for a halt
halt_or_move_stay_halts(m, instruction) ==
    IF to_int(instruction.direction) = 0
    THEN [m |-> m, ret |-> "0"]
    ELSE [m |-> move_head(m, instruction.direction), ret |-> "1"]

\* run_transition, the end of the step: the halt check and the head movement
halt_or_move(m, instruction) ==
    IF instruction.direction = "STOP"
    THEN [m |-> m, ret |-> "0"]
    ELSE [m |-> move_head(m, instruction.direction), ret |-> "1"]

\* run_transition that pushes the pre-step snapshot only once the instruction
\* has been executed without an exception
run_transition_pushes_on_success(m) ==
    LET symbol == current_symbol(m)
        row == Get(m.states, m.current_state)
    IN IF ~HasKey(m.states, m.current_state)
       THEN [m |-> m, ret |-> "KeyError"]
       ELSE IF ~HasKey(row, symbol)
       THEN [m |-> m, ret |-> "NoTransitionError"]
       ELSE LET instruction == Get(row, symbol)
                executed == execute_instruction(m, instruction)
            IN IF executed.ret # "None"
               THEN executed
               ELSE halt_or_move([executed.m EXCEPT !.history = push_history(m).history],
                                 instruction)

\* run_transition that pushes the history before it looks the instruction up
run_transition_pushes_first(m) ==
    LET symbol == current_symbol(m)
        row == Get(m.states, m.current_state)
        m1 == push_history(m)
    IN IF ~HasKey(m.states, m.current_state)
       THEN [m |-> m1, ret |-> "KeyError"]
       ELSE IF ~HasKey(row, symbol)
       THEN [m |-> m1, ret |-> "NoTransitionError"]
       ELSE LET instruction == Get(row, symbol)
                executed == execute_instruction(m1, instruction)
            IN IF executed.ret # "None"
               THEN executed
               ELSE halt_or_move(executed.m, instruction)

\* TuringMachine.run_transition; self.states[self.current_state] raises KeyError
\* when the current state is no key of the table
run_transition(m) ==
    LET symbol == current_symbol(m)
        row == Get(m.states, m.current_state)
    IN IF ~HasKey(m.states, m.current_state)
       THEN [m |-> m, ret |-> "KeyError"]
       ELSE IF ~HasKey(row, symbol)
       THEN [m |-> m, ret |-> "NoTransitionError"]
       ELSE LET instruction == Get(row, symbol)
                executed == execute_instruction(push_history(m), instruction)
            IN IF executed.ret # "None"
               THEN executed
               ELSE halt_or_move(executed.m, instruction)

\* step_back that restores the most recent entry but removes the oldest one
step_back_pops_oldest(m) ==
    IF m.history # <<>>
    THEN LET prev == m.history[Len(m.history)] IN
         [m |-> [m EXCEPT !.history = Tail(m.history),
                          !.head_position = prev.head_position,
                          !.tape = prev.tape,
                          !.current_state = prev.current_state,
                          !.step_count = prev.step_count],
          ret |-> "1"]
    ELSE [m |-> m, ret |-> "0"]

\* step_back that forgets to restore step_count
step_back_keeps_count(m) ==
    IF m.history # <<>>
    THEN LET prev == m.history[Len(m.history)] IN
         [m |-> [m EXCEPT !.history = SubSeq(m.history, 1, Len(m.history) - 1),
                          !.head_position = prev.head_position,
                          !.tape = prev.tape,
                          !.current_state = prev.current_state],
          ret |-> "1"]
    ELSE [m |-> m, ret |-> "0"]

\* TuringMachine.step_back
step_back(m) ==
    IF m.history # <<>>
    THEN LET prev == m.history[Len(m.history)] IN
         [m |-> [m EXCEPT !.history = SubSeq(m.history, 1, Len(m.history) - 1),
                          !.head_position = prev.head_position,
                          !.tape = prev.tape,
                          !.current_state = prev.current_state,
                          !.step_count = prev.step_count],
          ret |-> "1"]
    ELSE [m |-> m, ret |-> "0"]

\* TuringMachine.save_tape
save_tape(m) ==
    [m |-> [m EXCEPT !.saved_state = <<get_state_info(m)>>], ret |-> "None"]

\* load_tape that empties the slot once it has restored from it
load_tape_consumes_slot(m) ==
    IF m.saved_state # <<>>
    THEN LET s == m.saved_state[1] IN
         [m |-> [m EXCEPT !.head_position = s.head_position,
                          !.tape = s.tape,
                          !.current_state = s.current_state,
                          !.step_count = s.step_count,
                          !.saved_state = <<>>],
          ret |-> "None"]
    ELSE [m |-> m, ret |-> "None"]

\* load_tape that goes back to q0 and position 0 when nothing was saved
load_tape_rewinds_unsaved(m) ==
    IF m.saved_state # <<>>
    THEN LET s == m.saved_state[1] IN
         [m |-> [m EXCEPT !.head_position = s.head_position,
                          !.tape = s.tape,
                          !.current_state = s.current_state,
                          !.step_count = s.step_count],
          ret |-> "None"]
    ELSE [m |-> [m EXCEPT !.head_position = LEFT_END, !.current_state = q0],
          ret |-> "None"]

\* load_tape that forgets to restore step_count
load_tape_keeps_count(m) ==
    IF m.saved_state # <<>>
    THEN LET s == m.saved_state[1] IN
         [m |-> [m EXCEPT !.head_position = s.head_position,
                          !.tape = s.tape,
                          !.current_state = s.current_state],
          ret |-> "None"]
    ELSE [m |-> m, ret |-> "None"]

\* TuringMachine.load_tape
load_tape(m) ==
    IF m.saved_state # <<>>
    THEN LET s == m.saved_state[1] IN
         [m |-> [m EXCEPT !.head_position = s.head_position,
                          !.tape = s.tape,
                          !.current_state = s.current_state,
                          !.step_count = s.step_count],
          ret |-> "None"]
    ELSE [m |-> m, ret |-> "None"]

\* run that returns after its first step, whatever that step returned
run_once(m, fuel) ==
    LET out == run_transition(m) IN
    [m |-> out.m, ret |-> IF out.ret \in {"0", "1"} THEN "None" ELSE out.ret]

\* TuringMachine.run: run_transition until it returns 0 or raises; "Unfinished"
\* when more than fuel + 1 steps are needed
RECURSIVE run(_, _)
run(m, fuel) ==
    LET out == run_transition(m) IN
    IF out.ret = "1"
    THEN IF fuel = 0 THEN [m |-> out.m, ret |-> "Unfinished"] ELSE run(out.m, fuel - 1)
    ELSE [m |-> out.m, ret |-> IF out.ret = "0" THEN "None" ELSE out.ret]

\* the arguments of a new_transition call: [state, symbol, instruction]
Edit(state, symbol, instruction) ==
    [state |-> state, symbol |-> symbol, instruction |-> instruction]

\* ord(x) for the one-character symbols of the model
ord(x) ==
    CASE x = <<"0">> -> 48
      [] x = <<"1">> -> 49
      [] x = <<"_">> -> 95
      [] x = <<"a">> -> 97

\* sorted(S, key=...): the elements x of the pairs <<key, x>> by ascending key
\* (the keys are distinct)
RECURSIVE sorted(_)
sorted(pairs) ==
    IF pairs = {} THEN <<>>
    ELSE LET p == CHOOSE p \in pairs : \A r \in pairs : p[1] <= r[1]
         IN <<p[2]>> \o sorted(pairs \ {p})

\* get_symbols that sorts every symbol, the blank too, by its code point
get_symbols_by_code_point(m) ==
    sorted({ <<ord(x), x>> : x \in m.symbols })

\* TuringMachine.get_symbols
get_symbols(m) ==
    sorted({ <<IF x # <<"_">> THEN ord(x) ELSE -1, x>> : x \in m.symbols })

\* TuringMachine.get_states
get_states(m) == Keys(m.states)

\* save_to_file that writes each instruction as next state, symbol, direction
save_to_file_state_first(m) ==
    [tape |-> m.tape,
     states |-> [i \in 1..Len(m.states) |->
                    [key |-> m.states[i].key,
                     value |-> [j \in 1..Len(m.states[i].value) |->
                                   LET t == m.states[i].value[j].value IN
                                   [key |-> m.states[i].value[j].key,
                                    value |-> t.next_state \o <<" ">> \o t.write_symbol
                                              \o <<" ">> \o DirectionValue(t.direction)]]]]]

\* TuringMachine.save_to_file: the document json.dump writes. The document is
\* kept as the tree json.load reads back: json maps a dict with str keys to an
\* object with the same members in the same order, a list of str to an array.
save_to_file(m) ==
    [tape |-> m.tape,
     states |-> [i \in 1..Len(m.states) |->
                    [key |-> m.states[i].key,
                     value |-> [j \in 1..Len(m.states[i].value) |->
                                   [key |-> m.states[i].value[j].key,
                                    value |-> to_str(m.states[i].value[j].value)]]]]]

\* the (state, symbol, instruction) triples of a document's states, in the
\* order the two nested loops of load_from_file visit them
RECURSIVE Items(_)
Items(states) ==
    IF states = <<>> THEN <<>>
    ELSE [j \in 1..Len(states[1].value) |->
             Edit(states[1].key, states[1].value[j].key, states[1].value[j].value)]
         \o Items(Tail(states))

\* the loops of load_from_file: new_transition for each triple, until one raises
RECURSIVE LoadItems(_, _)
LoadItems(m, items) ==
    IF items = <<>> THEN [m |-> m, ret |-> "None"]
    ELSE LET out == new_transition(m, items[1].state, items[1].symbol,
                                   items[1].instruction)
         IN IF out.ret # "None" THEN out ELSE LoadItems(out.m, Tail(items))

\* load_from_file that returns the machine it has built so far when an
\* instruction fails to parse
load_from_file_returns_partial(f) ==
    IF f = <<>>
    THEN [exc |-> "FileNotFoundError", value |-> <<>>]
    ELSE LET data == f[1]
             built == LoadItems(set_tape(TuringMachine, data.tape).m, Items(data.states))
         IN [exc |-> "None", value |-> <<built.m>>]

\* TuringMachine.load_from_file; f is the file: <<>> when there is none, else
\* <<document>>. exc names the exception raised ("None": it returned value[1]).
load_from_file(f) ==
    IF f = <<>>
    THEN [exc |-> "FileNotFoundError", value |-> <<>>]
    ELSE LET data == f[1]
             built == LoadItems(set_tape(TuringMachine, data.tape).m, Items(data.states))
         IN IF built.ret # "None"
            THEN [exc |-> built.ret, value |-> <<>>]
            ELSE [exc |-> "None", value |-> <<built.m>>]

(***************************************************************************)
(* TuringMachinGUI.py: TransitionTableEditor and TuringMachineGUI          *)
(***************************************************************************)
\* TransitionTableEditor.create_table: cells, a dict from (state, symbol) to
\* the text of its Entry widget, rebuilt from the table of the editor's
\* machine em for the editor's states and symbols
create_table(states, symbols, em) ==
    [n \in 1..(Len(states) * Len(symbols)) |->
        LET state == states[((n - 1) \div Len(symbols)) + 1]
            symbol == symbols[((n - 1) % Len(symbols)) + 1]
        IN [key |-> <<state, symbol>>,
            value |-> IF HasKey(em.states, state) /\ HasKey(Get(em.states, state), symbol)
                      THEN LET trans == Get(Get(em.states, state), symbol)
                           IN trans.write_symbol \o <<" ">> \o trans.next_state
                              \o <<" ">> \o DirectionValue(trans.direction)
                      ELSE <<>>]]

\* TransitionTableEditor.__init__; its create_table call is scheduled, not made
TransitionTableEditor(m) ==
    [machine |-> <<>>,
     states |-> get_states(m),
     symbols |-> get_symbols(m),
     cells |-> <<>>]

\* TuringMachineGUI.__init__; after lists the callbacks root.after has pending
TuringMachineGUI ==
    [table_editor |-> TransitionTableEditor(TuringMachine),
     is_running |-> FALSE,
     after |-> <<"create_table">>]

\* the machine object TransitionTableEditor.machine refers to
EditorMachine(m, g) ==
    IF g.table_editor.machine = <<>> THEN m ELSE g.table_editor.machine[1]

\* A handler of the GUI maps (m, g, f), the GUI's machine, its other
\* attributes and the file, to [machine, gui, file, ret]; ret is "None" or
\* names the exception its except clause caught.

\* TuringMachineGUI.save_machine
save_machine(m, g, f) ==
    [machine |-> m, gui |-> g, file |-> <<save_to_file(m)>>, ret |-> "None"]

\* TuringMachineGUI.load_machine
load_machine(m, g, f) ==
    LET loaded == load_from_file(f) IN
    IF loaded.exc # "None"
    THEN [machine |-> m, gui |-> g, file |-> f, ret |-> loaded.exc]
    ELSE LET new == loaded.value[1] IN
         [machine |-> new,
          gui |-> [g EXCEPT !.table_editor =
                      [machine |-> <<>>,
                       states |-> get_states(new),
                       symbols |-> get_symbols(new),
                       cells |-> create_table(get_states(new), get_symbols(new), new)]],
          file |-> f,
          ret |-> "None"]

\* the decimal digits; int(s) and str(n) for the one-digit numbers of the model
Decimal == <<"0", "1", "2", "3", "4", "5", "6", "7", "8", "9">>

\* int(s): <<n>>, or <<>> when it raises ValueError
int(s) ==
    IF Len(s) = 1 /\ \E d \in 1..Len(Decimal) : Decimal[d] = s[1]
    THEN <<(CHOOSE d \in 1..Len(Decimal) : Decimal[d] = s[1]) - 1>>
    ELSE <<>>

str(n) == <<Decimal[n + 1]>>

\* the largest n among a, b
max(a, b) == IF a >= b THEN a ELSE b

\* the loop of add_state: the largest number of a state named q<number>
RECURSIVE MaxNum(_, _)
MaxNum(states, max_num) ==
    IF states = <<>> THEN max_num
    ELSE LET state == states[1] IN
         MaxNum(Tail(states),
                IF state # <<>> /\ state[1] = "q" /\ int(Tail(state)) # <<>>
                THEN max(max_num, int(Tail(state))[1])
                ELSE max_num)

\* TransitionTableEditor.add_state; state_name is what the dialog returned
\* (<<>>: nothing was entered)
add_state(m, g, f, state_name) ==
    LET editor == g.table_editor
        new_state == IF state_name = <<>>
                     THEN <<"q">> \o str(MaxNum(editor.states, 0) + 1)
                     ELSE state_name
    IN IF ~InSeq(new_state, editor.states)
       THEN LET states == Append(editor.states, new_state) IN
            [machine |-> m,
             gui |-> [g EXCEPT !.table_editor.states = states,
                               !.table_editor.cells =
                                   create_table(states, editor.symbols, EditorMachine(m, g))],
             file |-> f,
             ret |-> "None"]
       ELSE [machine |-> m, gui |-> g, file |-> f, ret |-> "None"]

\* TransitionTableEditor.add_symbol
add_symbol(m, g, f, symbol) ==
    LET editor == g.table_editor IN
    IF symbol # <<>> /\ ~InSeq(symbol, editor.symbols)
    THEN LET symbols == Append(editor.symbols, symbol) IN
         [machine |-> m,
          gui |-> [g EXCEPT !.table_editor.symbols = symbols,
                            !.table_editor.cells =
                                create_table(editor.states, symbols, EditorMachine(m, g))],
          file |-> f,
          ret |-> "None"]
    ELSE [machine |-> m, gui |-> g, file |-> f, ret |-> "None"]

\* the (state, symbol, value) of the cells whose stripped text is not empty
RECURSIVE CellItems(_)
CellItems(cells) ==
    IF cells = <<>> THEN <<>>
    ELSE (IF strip(cells[1].value) # <<>>
          THEN <<Edit(cells[1].key[1], cells[1].key[2], strip(cells[1].value))>>
          ELSE <<>>)
         \o CellItems(Tail(cells))

\* TransitionTableEditor.apply_transitions: it works on the editor's machine
apply_transitions(m, g, f) ==
    LET em == EditorMachine(m, g)
        out == LoadItems([em EXCEPT !.states = <<>>], CellItems(g.table_editor.cells))
    IN IF g.table_editor.machine = <<>>
       THEN [machine |-> out.m, gui |-> g, file |-> f, ret |-> out.ret]
       ELSE [machine |-> m,
             gui |-> [g EXCEPT !.table_editor.machine = <<out.m>>],
             file |-> f,
             ret |-> out.ret]

\* the user types text into the Entry widget of a cell
type_cell(m, g, f, n, text) ==
    [machine |-> m,
     gui |-> [g EXCEPT !.table_editor.cells[n].value = text],
     file |-> f,
     ret |-> "None"]

\* the create_table callback that TransitionTableEditor.__init__ scheduled
create_table_callback(m, g, f) ==
    [machine |-> m,
     gui |-> [g EXCEPT !.after = SelectSeq(g.after, LAMBDA c : c # "create_table"),
                       !.table_editor.cells =
                           create_table(g.table_editor.states, g.table_editor.symbols,
                                        EditorMachine(m, g))],
     file |-> f,
     ret |-> "None"]

\* TuringMachineGUI.step
step(m, g, f) ==
    LET out == run_transition(m) IN
    [machine |-> out.m,
     gui |-> [g EXCEPT !.is_running = IF out.ret = "0" THEN FALSE ELSE g.is_running],
     file |-> f,
     ret |-> out.ret]

\* TuringMachineGUI.reset: self.machine becomes a new object, while
\* table_editor.machine goes on referring to the object it referred to
reset(m, g, f) ==
    LET em == EditorMachine(m, g) IN
    [machine |-> TuringMachine,
     gui |-> [g EXCEPT !.table_editor.machine = <<em>>,
                       !.table_editor.cells =
                           create_table(g.table_editor.states, g.table_editor.symbols, em),
                       !.is_running = FALSE],
     file |-> f,
     ret |-> "None"]

\* s without its first element equal to x
RemoveOne(s, x) ==
    IF ~InSeq(x, s) THEN s
    ELSE LET i == CHOOSE k \in 1..Len(s) : s[k] = x /\ \A j \in 1..(k - 1) : s[j] # x
         IN SubSeq(s, 1, i - 1) \o SubSeq(s, i + 1, Len(s))

\* TuringMachineGUI.auto_run; speed is the text of the speed Combobox. After
\* a step that returned 1 it schedules itself with root.after; int(speed)
\* raising ValueError is caught by the except clause like the engine's errors.
auto_run(m, g, f, speed) ==
    IF ~g.is_running
    THEN [machine |-> m, gui |-> g, file |-> f, ret |-> "None"]
    ELSE LET out == run_transition(m) IN
         IF out.ret = "1"
         THEN IF speed # <<>> /\ int(speed) = <<>>
              THEN [machine |-> out.m,
                    gui |-> [g EXCEPT !.is_running = FALSE],
                    file |-> f,
                    ret |-> "ValueError"]
              ELSE [machine |-> out.m,
                    gui |-> [g EXCEPT !.after = Append(g.after, "auto_run")],
                    file |-> f,
                    ret |-> "1"]
         ELSE [machine |-> out.m,
               gui |-> [g EXCEPT !.is_running = FALSE],
               file |-> f,
               ret |-> out.ret]

\* the timer fires a callback that auto_run scheduled with root.after
auto_run_callback(m, g, f, speed) ==
    auto_run(m, [g EXCEPT !.after = RemoveOne(g.after, "auto_run")], f, speed)

\* TuringMachineGUI.toggle_run, the Run/Pause button
toggle_run(m, g, f, speed) ==
    IF ~g.is_running
    THEN auto_run(m, [g EXCEPT !.is_running = TRUE], f, speed)
    ELSE [machine |-> m, gui |-> [g EXCEPT !.is_running = FALSE], file |-> f, ret |-> "None"]

\* TuringMachineGUI.step_back, the Step Back button
gui_step_back(m, g, f) ==
    LET out == step_back(m) IN
    [machine |-> out.m,
     gui |-> [g EXCEPT !.is_running = FALSE],
     file |-> f,
     ret |-> out.ret]

(***************************************************************************)
(* The caller: inputs and the calls it makes                               *)
(***************************************************************************)
Edits ==
    { Edit(q0, BLANK_SYMBOL, <<"1", " ", "q", "0", " ", ">">>),
      Edit(q0, ONE, <<" ", "_", "\t", "q", "0", " ", " ", "<", " ">>),
      Edit(q0, BLANK_SYMBOL, <<"1", " ", " ", "q", "1", "\t", ".">>),
      Edit(q1, ONE, <<"_", " ", "q", "0", " ", "!">>),
      Edit(q1, BLANK_SYMBOL, <<"1", " ", "q", "0">>),
      Edit(q0, BLANK_SYMBOL, <<"1", " ", "q", "0", " ", ">", " ", "!">>),
      Edit(q0, ONE, <<"1", " ", "q", "0", " ", "R">>) }

\* the tapes the caller hands to set_tape
TapeInputs == { <<>>, <<ONE>>, <<BLANK_SYMBOL, ONE>>, <<ONE, ONE>> }

\* the trail after one more step (run_transition, or each step of run)
Stepped(t, n) ==
    IF t = <<>> THEN <<>> ELSE <<[info |-> t[1].info, steps |-> t[1].steps + n]>>

Call(name, a, out, t) ==
    /\ calls < MaxCalls
    /\ machine' = out.m
    /\ op' = name
    /\ args' = a
    /\ result' = out.ret
    /\ pre' = machine
    /\ trail' = t
    /\ calls' = calls + 1
    /\ UNCHANGED <<gui, file>>

Init ==
    /\ machine = TuringMachine
    /\ op = "__init__"
    /\ args = <<>>
    /\ result = "None"
    /\ pre = TuringMachine
    /\ trail = <<>>
    /\ calls = 0
    /\ gui = TuringMachineGUI
    /\ file = <<>>

NewTransition ==
    \E e \in Edits :
        Call("new_transition", <<e.state, e.symbol, e.instruction>>,
             new_transition(machine, e.state, e.symbol, e.instruction), <<>>)

SetTape ==
    \E s \in TapeInputs : Call("set_tape", <<s>>, set_tape(machine, s), <<>>)

Step == Call("run_transition", <<>>, run_transition(machine), Stepped(trail, 1))

Run ==
    LET out == run(machine, MaxRun) IN
    /\ out.ret # "Unfinished"
    /\ Call("run", <<>>, out, Stepped(trail, 1))

StepBack == Call("step_back", <<>>, step_back(machine), <<>>)

SaveTape ==
    Call("save_tape", <<>>, save_tape(machine),
         <<[info |-> get_state_info(machine), steps |-> 0]>>)

LoadTape == Call("load_tape", <<>>, load_tape(machine), trail)

Next ==
    \/ NewTransition
    \/ SetTape
    \/ Step
    \/ Run
    \/ StepBack
    \/ SaveTape
    \/ LoadTape

Spec == Init /\ [][Next]_vars

(***************************************************************************)
(* SpecCap: a caller that installs an in-place toggling program on a fresh *)
(* machine and then only steps and undoes, far enough to fill the history. *)
(***************************************************************************)
CapEdits ==
    { Edit(q0, BLANK_SYMBOL, <<"1", " ", "q", "0", " ", ".">>),
      Edit(q0, ONE, <<"_", " ", "q", "0", " ", ".">>) }

CapCall(name, a, out) ==
    /\ machine' = out.m
    /\ op' = name
    /\ args' = a
    /\ result' = out.ret
    /\ pre' = machine
    /\ UNCHANGED <<trail, calls, gui, file>>

CapNewTransition ==
    /\ machine.history = <<>>
    /\ \E e \in CapEdits :
          CapCall("new_transition", <<e.state, e.symbol, e.instruction>>,
                  new_transition(machine, e.state, e.symbol, e.instruction))

CapStep ==
    /\ machine.step_count < MAX_HISTORY_LEN + CapExtra
    /\ CapCall("run_transition", <<>>, run_transition(machine))

CapStepBack == CapCall("step_back", <<>>, step_back(machine))

NextCap ==
    \/ CapNewTransition
    \/ CapStep
    \/ CapStepBack

SpecCap == Init /\ [][NextCap]_vars

(***************************************************************************)
(* SpecRun: a caller that builds a program over the symbols 0, 1 and blank *)
(* (a rewriting sweep that halts on the first blank, an instruction that   *)
(* names a state the table may lack) and steps or runs it.                 *)
(***************************************************************************)
RunEdits ==
    { Edit(q0, ZERO, <<"1", " ", "q", "0", " ", ">">>),
      Edit(q0, BLANK_SYMBOL, <<"_", " ", "q", "0", " ", "!">>),
      Edit(q0, ONE, <<"0", " ", "q", "1", " ", ">">>),
      Edit(q1, ZERO, <<"0", " ", "q", "0", " ", "<">>) }

RunTapes == { <<ZERO, ZERO>>, <<ZERO, ONE>>, <<ONE, ZERO>> }

RunNewTransition ==
    \E e \in RunEdits :
        Call("new_transition", <<e.state, e.symbol, e.instruction>>,
             new_transition(machine, e.state, e.symbol, e.instruction), <<>>)

RunSetTape ==
    \E s \in RunTapes : Call("set_tape", <<s>>, set_tape(machine, s), <<>>)

NextRun ==
    \/ RunNewTransition
    \/ RunSetTape
    \/ Step
    \/ Run

SpecRun == Init /\ [][NextRun]_vars

(***************************************************************************)
(* SpecFile: a caller that works on its active machine with the engine's   *)
(* methods and saves and loads it as TuringMachineGUI does, while the file *)
(* may also be written by hand.                                            *)
(***************************************************************************)
FileEdits ==
    { Edit(q0, BLANK_SYMBOL, <<"1", " ", " ", "q", "0", "\t", ">">>),
      Edit(q1, ONE, <<"_", " ", "q", "0", " ", "!">>),
      Edit(q0, ONE, <<"1", " ", "q", "1", " ", "<">>) }

\* a document: the tape and the rows [state, <<[symbol, text], ...>>]
Document(tape, states) == [tape |-> tape, states |-> states]

\* hand-written documents: a 2-token instruction after a valid one, a
\* 2-token instruction first, and a valid program that lists q1 before q0
Documents ==
    { Document(<<ONE>>,
               << [key |-> q0,
                   value |-> << [key |-> BLANK_SYMBOL, value |-> <<"1", " ", "q", "0", " ", ">">>],
                                [key |-> ONE, value |-> <<"_", " ", "q", "0">>] >>] >>),
      Document(<<ONE, ONE>>,
               << [key |-> q1,
                   value |-> << [key |-> ONE, value |-> <<"1", " ", "!">>] >>] >>),
      Document(<<BLANK_SYMBOL, ONE>>,
               << [key |-> q1,
                   value |-> << [key |-> ONE, value |-> <<"_", " ", " ", "q", "0", " ", "!">>] >>],
                  [key |-> q0,
                   value |-> << [key |-> BLANK_SYMBOL, value |-> <<"1", " ", "q", "1", " ", ">">>] >>] >>) }

GuiCall(name, a, out) ==
    /\ calls < MaxCalls
    /\ machine' = out.machine
    /\ gui' = out.gui
    /\ file' = out.file
    /\ op' = name
    /\ args' = a
    /\ result' = out.ret
    /\ pre' = machine
    /\ trail' = <<>>
    /\ calls' = calls + 1

FileNewTransition ==
    \E e \in FileEdits :
        Call("new_transition", <<e.state, e.symbol, e.instruction>>,
             new_transition(machine, e.state, e.symbol, e.instruction), <<>>)

\* the file is written by hand
WriteFile ==
    \E d \in Documents :
        GuiCall("write_file", <<d>>,
                [machine |-> machine, gui |-> gui, file |-> <<d>>, ret |-> "None"])

SaveMachine == GuiCall("save_machine", <<>>, save_machine(machine, gui, file))

LoadMachine == GuiCall("load_machine", <<>>, load_machine(machine, gui, file))

NextFile ==
    \/ FileNewTransition
    \/ SetTape
    \/ Step
    \/ StepBack
    \/ SaveTape
    \/ WriteFile
    \/ SaveMachine
    \/ LoadMachine

SpecFile == Init /\ [][NextFile]_vars

(***************************************************************************)
(* SpecParse: Transition.from_str and Transition.to_str applied in turn,   *)
(* starting from every text of at most MaxLen characters.                  *)
(***************************************************************************)
Alphabet == {" ", "\t", "1", ">", "!"}

InstructionTexts == UNION { [1..n -> Alphabet] : n \in 0..MaxLen }

InitParse ==
    /\ machine = TuringMachine
    /\ op = "str"
    /\ args = <<>>
    /\ result \in InstructionTexts
    /\ pre = TuringMachine
    /\ trail = <<>>
    /\ calls = 0
    /\ gui = TuringMachineGUI
    /\ file = <<>>

\* Transition.from_str(data), data the text made last
FromStr ==
    /\ op \in {"str", "to_str"}
    /\ op' = "from_str"
    /\ args' = <<result>>
    /\ result' = from_str(result)
    /\ UNCHANGED <<machine, pre, trail, calls, gui, file>>

\* transition.to_str(), transition the one from_str returned last
ToStr ==
    /\ op = "from_str"
    /\ result.exc = "None"
    /\ op' = "to_str"
    /\ args' = <<result.value>>
    /\ result' = to_str(result.value)
    /\ UNCHANGED <<machine, pre, trail, calls, gui, file>>

NextParse ==
    \/ FromStr
    \/ ToStr

SpecParse == InitParse /\ [][NextParse]_vars

(***************************************************************************)
(* SpecQuery: a caller that adds transitions for the symbols 0, 1, a and   *)
(* blank in the states q0, q1 and q2, in any order, and asks for the known *)
(* states and symbols.                                                     *)
(***************************************************************************)
QueryEdits ==
    { Edit(q2, LETTER_A, <<"1", " ", "q", "0", " ", ">">>),
      Edit(q1, ZERO, <<"a", " ", "q", "1", " ", "<">>),
      Edit(q0, ONE, <<"0", " ", "q", "2", " ", ".">>),
      Edit(q1, LETTER_A, <<"a", " ", "q", "1", " ", "!">>),
      Edit(q0, BLANK_SYMBOL, <<"_", " ", "q", "0">>) }

QueryNewTransition ==
    \E e \in QueryEdits :
        Call("new_transition", <<e.state, e.symbol, e.instruction>>,
             new_transition(machine, e.state, e.symbol, e.instruction), <<>>)

\* the queries return lists; result holds the list
GetStates ==
    Call("get_states", <<>>, [m |-> machine, ret |-> get_states(machine)], <<>>)

GetSymbols ==
    Call("get_symbols", <<>>, [m |-> machine, ret |-> get_symbols(machine)], <<>>)

NextQuery ==
    \/ QueryNewTransition
    \/ GetStates
    \/ GetSymbols

SpecQuery == Init /\ [][NextQuery]_vars

(***************************************************************************)
(* SpecGui: a user of the window who edits the transition table (Add       *)
(* state, Add symbol, typing into cells, Apply table) and presses Step and *)
(* Reset.                                                                  *)
(***************************************************************************)
CellTexts ==
    { <<"1", " ", "q", "0", " ", ">">>,
      <<" ", "_", " ", "q", "1", " ", ".", " ">>,
      <<"1", " ", "q", "0">> }

CreateTableCallback ==
    /\ InSeq("create_table", gui.after)
    /\ GuiCall("create_table", <<>>, create_table_callback(machine, gui, file))

TypeCell ==
    \E n \in 1..Len(gui.table_editor.cells) : \E text \in CellTexts :
        /\ gui.table_editor.cells[n].value # text
        /\ GuiCall("type_cell", <<gui.table_editor.cells[n].key, text>>,
                   type_cell(machine, gui, file, n, text))

AddState == GuiCall("add_state", << <<>> >>, add_state(machine, gui, file, <<>>))

AddSymbol == GuiCall("add_symbol", <<ONE>>, add_symbol(machine, gui, file, ONE))

ApplyTransitions ==
    GuiCall("apply_transitions", <<>>, apply_transitions(machine, gui, file))

GuiStep == GuiCall("step", <<>>, step(machine, gui, file))

Reset == GuiCall("reset", <<>>, reset(machine, gui, file))

NextGui ==
    \/ CreateTableCallback
    \/ TypeCell
    \/ AddState
    \/ AddSymbol
    \/ ApplyTransitions
    \/ GuiStep
    \/ Reset

SpecGui == Init /\ [][NextGui]_vars

(***************************************************************************)
(* SpecLifo: a caller that installs the toggling program, steps until the  *)
(* history has one of the lengths LifoStarts, then takes k consecutive     *)
(* steps and, for k in LifoDepths, k consecutive undos. Here trail is      *)
(* <<[info, steps, undos]>>: the state before the first of the k steps,    *)
(* the steps taken and the undos made since.                               *)
(***************************************************************************)
LifoStarts == {0, 1, MAX_HISTORY_LEN - 1, MAX_HISTORY_LEN}

LifoDepths == {1, 2, 3, MAX_HISTORY_LEN - 1, MAX_HISTORY_LEN}

LifoCall(name, a, out, t) ==
    /\ machine' = out.m
    /\ op' = name
    /\ args' = a
    /\ result' = out.ret
    /\ pre' = machine
    /\ trail' = t
    /\ UNCHANGED <<calls, gui, file>>

LifoNewTransition ==
    /\ trail = <<>>
    /\ machine.history = <<>>
    /\ \E e \in CapEdits :
          LifoCall("new_transition", <<e.state, e.symbol, e.instruction>>,
                   new_transition(machine, e.state, e.symbol, e.instruction), <<>>)

\* a step before the k steps
LifoFill ==
    /\ trail = <<>>
    /\ machine.step_count < MAX_HISTORY_LEN + CapExtra
    /\ LifoCall("run_transition", <<>>, run_transition(machine), <<>>)

\* the first of the k steps
LifoFirstStep ==
    /\ trail = <<>>
    /\ Len(machine.history) \in LifoStarts
    /\ LET out == run_transition(machine) IN
       LifoCall("run_transition", <<>>, out,
                IF out.ret \in {"0", "1"}
                THEN <<[info |-> get_state_info(machine), steps |-> 1, undos |-> 0]>>
                ELSE <<>>)

\* the next of the k steps
LifoStep ==
    /\ trail # <<>>
    /\ trail[1].undos = 0
    /\ trail[1].steps < MAX_HISTORY_LEN
    /\ LET out == run_transition(machine) IN
       LifoCall("run_transition", <<>>, out,
                IF out.ret \in {"0", "1"}
                THEN <<[trail[1] EXCEPT !.steps = @ + 1]>>
                ELSE <<>>)

\* one of the k undos
LifoStepBack ==
    /\ trail # <<>>
    /\ trail[1].undos < trail[1].steps
    /\ trail[1].undos > 0 \/ trail[1].steps \in LifoDepths
    /\ LifoCall("step_back", <<>>, step_back(machine),
                <<[trail[1] EXCEPT !.undos = @ + 1]>>)

NextLifo ==
    \/ LifoNewTransition
    \/ LifoFill
    \/ LifoFirstStep
    \/ LifoStep
    \/ LifoStepBack

SpecLifo == Init /\ [][NextLifo]_vars

(***************************************************************************)
(* SpecFail: a caller that installs the toggling program, steps until the  *)
(* history has one of the lengths LifoStarts, replaces an instruction by   *)
(* one that names the state q1, which the table lacks, and then steps and  *)
(* undoes. Here calls counts the calls from that replacement on.           *)
(***************************************************************************)
FailEdits ==
    { Edit(q0, BLANK_SYMBOL, <<"1", " ", "q", "1", " ", ">">>),
      Edit(q0, ONE, <<"_", " ", "q", "1", " ", ".">>) }

FailCall(name, a, out, n) ==
    /\ machine' = out.m
    /\ op' = name
    /\ args' = a
    /\ result' = out.ret
    /\ pre' = machine
    /\ calls' = n
    /\ UNCHANGED <<trail, gui, file>>

FailNewTransition ==
    /\ calls = 0
    /\ machine.history = <<>>
    /\ \E e \in CapEdits :
          FailCall("new_transition", <<e.state, e.symbol, e.instruction>>,
                   new_transition(machine, e.state, e.symbol, e.instruction), 0)

FailFill ==
    /\ calls = 0
    /\ machine.step_count < MAX_HISTORY_LEN + CapExtra
    /\ FailCall("run_transition", <<>>, run_transition(machine), 0)

FailBreak ==
    /\ calls = 0
    /\ Len(machine.history) \in LifoStarts
    /\ \E e \in FailEdits :
          FailCall("new_transition", <<e.state, e.symbol, e.instruction>>,
                   new_transition(machine, e.state, e.symbol, e.instruction), 1)

FailStep ==
    /\ calls \in 1..(MaxCalls - 1)
    /\ FailCall("run_transition", <<>>, run_transition(machine), calls + 1)

FailStepBack ==
    /\ calls \in 1..(MaxCalls - 1)
    /\ FailCall("step_back", <<>>, step_back(machine), calls + 1)

NextFail ==
    \/ FailNewTransition
    \/ FailFill
    \/ FailBreak
    \/ FailStep
    \/ FailStepBack

SpecFail == Init /\ [][NextFail]_vars

(***************************************************************************)
(* SpecAuto: a user of the window who installs a program and presses       *)
(* Run/Pause, Step and Step Back while the timer fires the callbacks that  *)
(* auto_run scheduled, in any order. Here trail is <<[is_running]>>: the   *)
(* value of is_running when the handler started.                           *)
(***************************************************************************)
AutoEdits ==
    { Edit(q0, BLANK_SYMBOL, <<"1", " ", "q", "0", " ", ".">>),
      Edit(q0, ONE, <<"_", " ", "q", "0", " ", "<">>),
      Edit(q0, ONE, <<"_", " ", "q", "0", " ", "!">>) }

\* the texts of the speed Combobox: a listed value, nothing, a typed word
SpeedTexts == { <<"3">>, <<>>, <<"x">> }

AutoCall(name, a, out) ==
    /\ calls < MaxCalls
    /\ machine' = out.machine
    /\ gui' = out.gui
    /\ file' = out.file
    /\ op' = name
    /\ args' = a
    /\ result' = out.ret
    /\ pre' = machine
    /\ trail' = <<[is_running |-> gui.is_running]>>
    /\ calls' = calls + 1

AutoNewTransition ==
    \E e \in AutoEdits :
        LET out == new_transition(machine, e.state, e.symbol, e.instruction) IN
        AutoCall("new_transition", <<e.state, e.symbol, e.instruction>>,
                 [machine |-> out.m, gui |-> gui, file |-> file, ret |-> out.ret])

AutoCreateTable ==
    /\ InSeq("create_table", gui.after)
    /\ AutoCall("create_table", <<>>, create_table_callback(machine, gui, file))

ToggleRun ==
    \E speed \in SpeedTexts :
        AutoCall("toggle_run", <<speed>>, toggle_run(machine, gui, file, speed))

AutoRunCallback ==
    /\ InSeq("auto_run", gui.after)
    /\ \E speed \in SpeedTexts :
          AutoCall("auto_run", <<speed>>, auto_run_callback(machine, gui, file, speed))

AutoStep == AutoCall("step", <<>>, step(machine, gui, file))

AutoStepBack == AutoCall("step_back", <<>>, gui_step_back(machine, gui, file))

NextAuto ==
    \/ AutoNewTransition
    \/ AutoCreateTable
    \/ ToggleRun
    \/ AutoRunCallback
    \/ AutoStep
    \/ AutoStepBack

SpecAuto == Init /\ [][NextAuto]_vars

(***************************************************************************)
(* Properties                                                              *)
(***************************************************************************)
\* the last call was run_transition and it returned (0 or 1)
StepSucceeded == op = "run_transition" /\ result \in {"0", "1"}

\* the table has an instruction for the state and symbol of m
HasInstruction(m) ==
    /\ HasKey(m.states, m.current_state)
    /\ HasKey(Get(m.states, m.current_state), current_symbol(m))

\* that instruction
Instruction(m) == Get(Get(m.states, m.current_state), current_symbol(m))

\* the tape of m with the cell under the head overwritten by w
Written(m, w) == [m.tape EXCEPT ![m.head_position + 1] = w]

\* C1: in every state a successful step() has just produced, an immediate
\* undo() reports "restored" and leaves current state, head position, tape and
\* step count exactly as they were before the step.
C1_StepUndoRestores ==
    StepSucceeded =>
        LET undone == step_back(machine) IN
        /\ undone.ret = "1"
        /\ undone.m.current_state = pre.current_state
        /\ undone.m.head_position = pre.head_position
        /\ undone.m.tape = pre.tape
        /\ undone.m.step_count = pre.step_count

\* a step that wrote, moved and counted, so that undo has something to restore
C1_Witness ==
    /\ StepSucceeded
    /\ machine.tape # pre.tape
    /\ machine.head_position # pre.head_position
    /\ Len(pre.history) > 0
    /\ step_back(machine).m.tape = pre.tape

\* the object after k calls of step_back; by halving, and with the midpoint
\* bound as a value, so that k = MAX_HISTORY_LEN stays within the evaluator's stack
RECURSIVE UndoTimes(_, _)
UndoTimes(m, k) ==
    IF k = 0 THEN m
    ELSE IF k = 1 THEN step_back(m).m
    ELSE CHOOSE r \in { UndoTimes(mid, k - (k \div 2)) :
                         mid \in {UndoTimes(m, k \div 2)} } : TRUE

\* the state infos of the objects after 0, 1, ..., k calls of step_back
RECURSIVE UndoReach(_, _)
UndoReach(m, k) ==
    IF k = 0 THEN {get_state_info(m)}
    ELSE LET half == k \div 2 IN
         UNION { UndoReach(m, half) \cup UndoReach(mid, k - half - 1) :
                 mid \in {UndoTimes(m, half + 1)} }

\* C2: the history never holds more than MAX_HISTORY_LEN snapshots; a step
\* taken with a full history evicts the oldest entry and appends the pre-step
\* snapshot; and once MAX_HISTORY_LEN + 1 steps have been counted from a fresh
\* machine, no number of undos brings back a snapshot with step_count 0.
C2_HistoryCapFifo ==
    /\ Len(machine.history) <= MAX_HISTORY_LEN
    /\ (StepSucceeded /\ Len(pre.history) = MAX_HISTORY_LEN) =>
           machine.history = Append(Tail(pre.history), get_state_info(pre))
    /\ machine.step_count > MAX_HISTORY_LEN =>
           \A info \in UndoReach(machine, Len(machine.history) + 1) :
               info.step_count > 0

\* the step that follows MAX_HISTORY_LEN consecutive steps of a fresh machine
C2_Witness ==
    /\ StepSucceeded
    /\ Len(pre.history) = MAX_HISTORY_LEN
    /\ pre.history[1].step_count = 0
    /\ machine.step_count = MAX_HISTORY_LEN + 1
    /\ Len(machine.history) = MAX_HISTORY_LEN

\* the head movement the claim gives a direction
Delta(direction) ==
    CASE direction = "LEFT" -> -1
      [] direction = "RIGHT" -> 1
      [] direction = "STAY" -> 0
      [] direction = "STOP" -> 0

\* C3: a successful Left step taken at position 0 puts one blank in front of
\* the (written) tape and leaves the head at 0; a successful Right step taken
\* on the last cell appends one blank and puts the head on it; any other
\* successful step keeps the tape length and moves the head by the delta.
C3_HeadMovement ==
    StepSucceeded =>
        LET d == Instruction(pre).direction
            written == Written(pre, Instruction(pre).write_symbol)
        IN CASE d = "LEFT" /\ pre.head_position = 0 ->
                  /\ machine.tape = <<BLANK_SYMBOL>> \o written
                  /\ machine.head_position = 0
             [] d = "RIGHT" /\ pre.head_position = Len(pre.tape) - 1 ->
                  /\ machine.tape = written \o <<BLANK_SYMBOL>>
                  /\ machine.head_position = Len(machine.tape) - 1
             [] OTHER ->
                  /\ machine.tape = written
                  /\ machine.head_position = pre.head_position + Delta(d)

\* a Left step at position 0 of a tape with two cells
C3_Witness ==
    /\ StepSucceeded
    /\ Instruction(pre).direction = "LEFT"
    /\ pre.head_position = 0
    /\ Len(pre.tape) = 2
    /\ Len(machine.tape) = 3

\* C4: in every reachable state the tape is non-empty and the head is on it.
C4_HeadOnTape ==
    /\ machine.tape # <<>>
    /\ 0 <= machine.head_position
    /\ machine.head_position <= Len(machine.tape) - 1

\* set_tape was handed the empty list
C4_Witness ==
    /\ op = "set_tape"
    /\ args = << <<>> >>
    /\ Len(pre.tape) > 1
    /\ pre.head_position > 0

\* C5: load_tape, called after save_tape with only steps (successful or
\* failed, single or in run) in between, leaves current state, head position,
\* tape and step count as they were when save_tape was called.
C5_SaveStepsRestore ==
    (op = "load_tape" /\ trail # <<>>) =>
        get_state_info(machine) = trail[1].info

\* a restore after steps that changed tape, head and step count
C5_Witness ==
    /\ op = "load_tape"
    /\ trail # <<>>
    /\ trail[1].steps >= 2
    /\ pre.tape # machine.tape
    /\ pre.head_position # machine.head_position
    /\ pre.step_count # machine.step_count

\* C6: a step taken when the table has no entry for the current state and the
\* symbol under the head raises NoTransitionError and leaves the whole machine
\* (state, tape, head, step count, history, table, saved snapshot, symbols) as
\* it was.
C6_NoTransitionUnchanged ==
    (op = "run_transition" /\ ~HasInstruction(pre)) =>
        /\ result = "NoTransitionError"
        /\ machine = pre

\* a failed lookup on a machine that has a history and a saved snapshot
C6_Witness ==
    /\ op = "run_transition"
    /\ result = "NoTransitionError"
    /\ pre.history # <<>>
    /\ pre.saved_state # <<>>

\* C7: a step whose instruction names a state that is no key of the table
\* raises InvalidStateError with the cell under the head overwritten by the
\* instruction's write symbol, the rest of the tape and the head as before.
C7_InvalidStateAfterWrite ==
    (op = "run_transition" /\ HasInstruction(pre)
        /\ ~HasKey(pre.states, Instruction(pre).next_state)) =>
        /\ result = "InvalidStateError"
        /\ machine.tape = Written(pre, Instruction(pre).write_symbol)
        /\ machine.head_position = pre.head_position

\* such a failed step, after which the tape differs from the tape before
C7_Witness ==
    /\ op = "run_transition"
    /\ result = "InvalidStateError"
    /\ machine.tape # pre.tape
    /\ Instruction(pre).direction # "STOP"

\* C8: every step either commits all of its effects (history push, tape
\* write, state change, step count, head movement) or fails and leaves the
\* machine as it was, so that no partially applied step is ever observed.
C8_StepAtomic ==
    op = "run_transition" =>
        \/ /\ StepSucceeded
           /\ machine.history = Append(pre.history, get_state_info(pre))
           /\ machine.current_state = Instruction(pre).next_state
           /\ machine.step_count = pre.step_count + 1
           /\ Len(machine.tape) >= Len(pre.tape)
           /\ \E i \in 1..Len(machine.tape) :
                  machine.tape[i] = Instruction(pre).write_symbol
        \/ /\ ~StepSucceeded
           /\ machine = pre

\* C9: a successful step adds exactly 1 to step_count whatever its direction;
\* it returns 0 (halted) exactly when the direction is Halt, and then the head
\* and the tape length are as before; with Left, Right or Stay it returns 1.
C9_StepCountAndHalt ==
    StepSucceeded =>
        /\ machine.step_count = pre.step_count + 1
        /\ (result = "0") <=> (Instruction(pre).direction = "STOP")
        /\ Instruction(pre).direction = "STOP" =>
               /\ machine.head_position = pre.head_position
               /\ Len(machine.tape) = Len(pre.tape)

\* a Stay step: delta 0 like Halt, yet it returns 1
C9_Witness ==
    /\ StepSucceeded
    /\ Instruction(pre).direction = "STAY"
    /\ result = "1"
    /\ machine.head_position = pre.head_position
    /\ machine.step_count = pre.step_count + 1

\* the table entry for (state, symbol): <<>> when absent, else <<transition>>
Entry(states, state, symbol) ==
    IF HasKey(states, state) /\ HasKey(Get(states, state), symbol)
    THEN <<Get(Get(states, state), symbol)>>
    ELSE <<>>

\* every state name and symbol that is a key of either table or an argument
KeysOf(states) == {states[i].key : i \in 1..Len(states)}

SymbolsOf(states) ==
    UNION { KeysOf(states[i].value) : i \in 1..Len(states) }

\* C10: new_transition(state, symbol, text) with a text of exactly three
\* whitespace-separated tokens, the third one of < > . !, makes the entry for
\* (state, symbol) the transition of these tokens, leaves every other entry as
\* it was and adds symbol to the known symbols; with any other text it raises
\* InvalidTransitionError and leaves table, known states and known symbols as
\* they were.
C10_AddTransition ==
    op = "new_transition" =>
        LET state == args[1]
            symbol == args[2]
            toks == split(args[3])
            valid == /\ Len(toks) = 3
                     /\ toks[3] \in {<<"<">>, <<">">>, <<".">>, <<"!">>}
            parsed == [next_state |-> toks[2],
                       write_symbol |-> toks[1],
                       direction |-> CASE toks[3] = <<"<">> -> "LEFT"
                                       [] toks[3] = <<">">> -> "RIGHT"
                                       [] toks[3] = <<".">> -> "STAY"
                                       [] toks[3] = <<"!">> -> "STOP"]
        IN IF valid
           THEN /\ result = "None"
                /\ Entry(machine.states, state, symbol) = <<parsed>>
                /\ \A st \in KeysOf(machine.states) \cup KeysOf(pre.states) :
                   \A sy \in SymbolsOf(machine.states) \cup SymbolsOf(pre.states) :
                       (st # state \/ sy # symbol) =>
                           Entry(machine.states, st, sy) = Entry(pre.states, st, sy)
                /\ machine.symbols = pre.symbols \cup {symbol}
           ELSE /\ result = "InvalidTransitionError"
                /\ machine.states = pre.states
                /\ Keys(machine.states) = Keys(pre.states)
                /\ machine.symbols = pre.symbols

\* a valid text with irregular whitespace replacing an existing entry
C10_Witness ==
    /\ op = "new_transition"
    /\ result = "None"
    /\ Len(args[3]) > 6
    /\ Entry(pre.states, args[1], args[2]) # <<>>
    /\ Entry(pre.states, args[1], args[2]) # Entry(machine.states, args[1], args[2])
    /\ Len(machine.states) > 1

\* C11: set_tape(s) makes the tape s, or one blank cell when s is empty, the
\* current state q0 and the head position 0, and leaves step count, history,
\* table, saved snapshot and known symbols as they were.
C11_SetTapeFrame ==
    op = "set_tape" =>
        /\ result = "None"
        /\ machine.tape = (IF Len(args[1]) = 0 THEN <<BLANK_SYMBOL>> ELSE args[1])
        /\ machine.current_state = q0
        /\ machine.head_position = 0
        /\ machine.step_count = pre.step_count
        /\ machine.history = pre.history
        /\ machine.states = pre.states
        /\ machine.saved_state = pre.saved_state
        /\ machine.symbols = pre.symbols

\* set_tape on a machine that has stepped away from q0 and has a history, a
\* saved snapshot and a table
C11_Witness ==
    /\ op = "set_tape"
    /\ pre.current_state # q0
    /\ pre.step_count > 0
    /\ pre.history # <<>>
    /\ pre.saved_state # <<>>
    /\ machine.tape # pre.tape

\* the object after k calls of run_transition, returned or raised
RECURSIVE AfterSteps(_, _)
AfterSteps(m, k) ==
    IF k = 0 THEN m ELSE run_transition(AfterSteps(m, k - 1)).m

\* C12: run() leaves the machine as k >= 1 consecutive steps leave it, of
\* which the first k - 1 returned 1 and the k-th either executed a Halt
\* instruction (run returns) or raised (run raises the same exception); and on
\* a fresh machine with the table {q0: {'0': "1 q0 >", '_': "_ q0 !"}} and the
\* tape ['0', '0'] it takes 3 steps and ends with tape ['1', '1', '_'], state
\* q0 and step_count 3.
C12_RunUntilHalt ==
    op = "run" =>
        /\ \E k \in 1..(MaxRun + 1) :
              LET last == run_transition(AfterSteps(pre, k - 1)) IN
              /\ \A j \in 1..(k - 1) :
                     run_transition(AfterSteps(pre, j - 1)).ret = "1"
              /\ machine = last.m
              /\ \/ /\ result = "None"
                    /\ last.ret = "0"
                    /\ Instruction(AfterSteps(pre, k - 1)).direction = "STOP"
                 \/ /\ result \in {"NoTransitionError", "InvalidStateError", "KeyError"}
                    /\ last.ret = result
        /\ ( /\ pre.tape = <<ZERO, ZERO>>
             /\ get_state_info(pre) = StateInfo(q0, 0, <<ZERO, ZERO>>, 0)
             /\ pre.history = <<>>
             /\ Len(pre.states) = 1
             /\ Entry(pre.states, q0, ZERO) = <<Transition(q0, ONE, "RIGHT")>>
             /\ Entry(pre.states, q0, BLANK_SYMBOL) = <<Transition(q0, BLANK_SYMBOL, "STOP")>>
             /\ Entry(pre.states, q0, ONE) = <<>> )
           => /\ result = "None"
              /\ machine.tape = <<ONE, ONE, BLANK_SYMBOL>>
              /\ machine.current_state = q0
              /\ machine.step_count = 3
              /\ Len(machine.history) = 3

\* the run of the sweep over ['0', '0']: two Right steps, then the Halt
C12_Witness ==
    /\ op = "run"
    /\ result = "None"
    /\ pre.tape = <<ZERO, ZERO>>
    /\ pre.step_count = 0
    /\ Len(pre.states) = 1
    /\ machine.tape = <<ONE, ONE, BLANK_SYMBOL>>
    /\ machine.step_count = 3

\* the instruction texts of a document, in document order
Texts(document) ==
    [n \in 1..Len(Items(document.states)) |-> Items(document.states)[n].instruction]

\* the text has exactly three tokens, the third one a direction token
WellFormed(text) ==
    /\ Len(split(text)) = 3
    /\ split(text)[3] \in {<<"<">>, <<">">>, <<".">>, <<"!">>}

\* C13: load_machine on a file with an instruction text that does not parse
\* catches InvalidTransitionError and leaves the active machine, with its
\* table, tape, state, head, step count, history and saved snapshot, and the
\* table editor as they were; the active machine is replaced only by a machine
\* that holds the document's tape and every transition of the document.
C13_LoadAtomic ==
    (op = "load_machine" /\ file # <<>>) =>
        LET document == file[1]
            items == Items(document.states)
        IN /\ (\E n \in 1..Len(items) : ~WellFormed(items[n].instruction)) =>
                  /\ result = "InvalidTransitionError"
                  /\ machine = pre
                  /\ gui.table_editor.machine = <<>>
           /\ (machine # pre \/ result = "None") =>
                  /\ result = "None"
                  /\ \A n \in 1..Len(items) : WellFormed(items[n].instruction)
                  /\ machine.tape = document.tape
                  /\ \A n \in 1..Len(items) :
                         Entry(machine.states, items[n].state, items[n].symbol)
                             = <<from_str(items[n].instruction).value>>
                  /\ gui.table_editor.states = Keys(machine.states)

\* a load that fails on the document's second instruction, after the first
\* one has been added to the machine under construction, while the active
\* machine has a table, a history and a saved snapshot
C13_Witness ==
    /\ op = "load_machine"
    /\ result = "InvalidTransitionError"
    /\ file # <<>>
    /\ Len(Texts(file[1])) = 2
    /\ WellFormed(Texts(file[1])[1])
    /\ Len(split(Texts(file[1])[2])) = 2
    /\ pre.history # <<>>
    /\ pre.saved_state # <<>>
    /\ pre.tape # file[1].tape

\* C14: loading the document that save_to_file writes for the active machine
\* yields a machine with the same tape and the same table (the same states in
\* the same order with the same entries), in state q0 with head position 0,
\* step count 0, an empty history and no saved snapshot.
C14_SaveLoadRoundTrip ==
    (op = "load_machine" /\ file = <<save_to_file(pre)>>) =>
        /\ result = "None"
        /\ machine.tape = pre.tape
        /\ Keys(machine.states) = Keys(pre.states)
        /\ machine.states = pre.states
        /\ machine.current_state = q0
        /\ machine.head_position = 0
        /\ machine.step_count = 0
        /\ machine.history = <<>>
        /\ machine.saved_state = <<>>

\* a round trip of a machine with two states that has stepped and saved a
\* snapshot
C14_Witness ==
    /\ op = "load_machine"
    /\ file = <<save_to_file(pre)>>
    /\ Len(pre.states) = 2
    /\ pre.head_position > 0
    /\ pre.step_count > 0
    /\ pre.history # <<>>
    /\ pre.saved_state # <<>>
    /\ machine # pre

\* C15: for every text with exactly three whitespace-separated tokens, the
\* third one of < > . !, from_str returns a transition t and
\* from_str(to_str(t)) returns that same t (write symbol, next state, direction).
C15_ParseRoundTrip ==
    (op = "from_str" /\ WellFormed(args[1])) =>
        /\ result.exc = "None"
        /\ from_str(to_str(result.value)).exc = "None"
        /\ from_str(to_str(result.value)).value.write_symbol = result.value.write_symbol
        /\ from_str(to_str(result.value)).value.next_state = result.value.next_state
        /\ from_str(to_str(result.value)).value.direction = result.value.direction

\* a text with tabs or surrounding blanks, which to_str does not give back
C15_Witness ==
    /\ op = "from_str"
    /\ WellFormed(args[1])
    /\ result.exc = "None"
    /\ to_str(result.value) # args[1]
    /\ result.value.write_symbol # result.value.next_state
    /\ Len(args[1]) = MaxLen

\* C16: step_back with an empty history returns False and leaves the whole
\* machine as it was; with a non-empty history it returns True, removes
\* exactly the most recent history entry and sets current state, head
\* position, tape and step count to that entry's values, leaving table, saved
\* snapshot and known symbols as they were.
C16_UndoBoundary ==
    op = "step_back" =>
        IF Len(pre.history) = 0
        THEN /\ result = "0"
             /\ machine = pre
        ELSE LET n == Len(pre.history) IN
             /\ result = "1"
             /\ Len(machine.history) = n - 1
             /\ \A i \in 1..(n - 1) : machine.history[i] = pre.history[i]
             /\ get_state_info(machine) = pre.history[n]
             /\ machine.states = pre.states
             /\ machine.saved_state = pre.saved_state
             /\ machine.symbols = pre.symbols

\* an undo on a history of two different entries, which changes state, tape
\* and step count
C16_Witness ==
    /\ op = "step_back"
    /\ result = "1"
    /\ Len(pre.history) >= 2
    /\ pre.history[1] # pre.history[2]
    /\ machine.tape # pre.tape
    /\ machine.step_count = pre.step_count - 1

\* C17: load_tape on a machine whose snapshot slot is empty (save_tape was
\* never called) returns without raising and leaves current state, head
\* position, tape, step count, history and table, and the slot, as they were.
C17_RestoreWithoutSave ==
    (op = "load_tape" /\ pre.saved_state = <<>>) =>
        /\ result = "None"
        /\ machine.current_state = pre.current_state
        /\ machine.head_position = pre.head_position
        /\ machine.tape = pre.tape
        /\ machine.step_count = pre.step_count
        /\ machine.history = pre.history
        /\ machine.states = pre.states
        /\ machine.saved_state = <<>>

\* load_tape without a snapshot on a machine that has left q0 and position 0
C17_Witness ==
    /\ op = "load_tape"
    /\ pre.saved_state = <<>>
    /\ pre.history # <<>>
    /\ pre.step_count > 0
    /\ \/ pre.head_position > 0
       \/ pre.current_state # q0
    /\ pre.tape # <<BLANK_SYMBOL>>

\* C18: get_states lists the table's states without duplicates, q0 first, and
\* a call that creates a state appends it, so that the list is in creation
\* order; get_symbols lists the known symbols with the blank first and the
\* others after it in strictly ascending code-point order.
C18_KnownStatesAndSymbols ==
    LET s == get_states(machine)
        p == get_states(pre)
        y == get_symbols(machine)
    IN /\ s[1] = q0
       /\ {s[i] : i \in 1..Len(s)} = KeysOf(machine.states)
       /\ \A i, j \in 1..Len(s) : i # j => s[i] # s[j]
       /\ Len(p) <= Len(s)
       /\ \A i \in 1..Len(p) : s[i] = p[i]
       /\ Len(s) > Len(p) => (op = "new_transition" /\ s = Append(p, args[1]))
       /\ (op = "new_transition" /\ result = "None") =>
              \E i \in 1..Len(s) : s[i] = args[1]
       /\ y[1] = BLANK_SYMBOL
       /\ {y[i] : i \in 1..Len(y)} = machine.symbols
       /\ \A i \in 2..Len(y) : y[i] # BLANK_SYMBOL
       /\ \A i \in 2..(Len(y) - 1) : ord(y[i]) < ord(y[i + 1])
       /\ op = "get_states" => result = s
       /\ op = "get_symbols" => result = y

\* the symbols asked for after a, 0 and 1 were added in this order to the
\* states q2, q1 and q0
C18_Witness ==
    /\ op = "get_symbols"
    /\ result = <<BLANK_SYMBOL, ZERO, ONE, LETTER_A>>
    /\ get_states(machine) = <<q0, q2, q1>>

\* C19: in every reachable state the tape contains at least one blank cell.
C19_TapeHasBlank ==
    \E i \in 1..Len(machine.tape) : machine.tape[i] = BLANK_SYMBOL

\* C19 as amended: the tape is never empty, and the cells the machine supplies
\* itself are blank: the initial cell, the cell that stands for an empty
\* set_tape argument, and the cell a head movement adds at either end. The
\* tape need not contain a blank.
C19_TapeNeverEmpty ==
    /\ Len(machine.tape) >= 1
    /\ op = "__init__" => machine.tape = <<BLANK_SYMBOL>>
    /\ (op = "set_tape" /\ Len(args[1]) = 0) => machine.tape = <<BLANK_SYMBOL>>
    /\ (op = "set_tape" /\ Len(args[1]) > 0) => machine.tape = args[1]
    /\ StepSucceeded =>
           LET written == Written(pre, Instruction(pre).write_symbol) IN
           \/ machine.tape = written
           \/ machine.tape = <<BLANK_SYMBOL>> \o written
           \/ machine.tape = written \o <<BLANK_SYMBOL>>

\* a Stay step has written 1 over the only cell of the tape, a blank
C19_Witness ==
    /\ StepSucceeded
    /\ pre.tape = <<BLANK_SYMBOL>>
    /\ machine.tape = <<ONE>>
    /\ Instruction(pre).direction = "STAY"

\* C20: Reset puts the active machine into its initial configuration and
\* keeps its transition table: after reset the machine that Step executes has
\* every transition it had before, and Apply table writes into that machine
\* (the table editor's machine is the active machine).
C20_ResetKeepsTable ==
    /\ op = "reset" =>
           /\ \A state \in KeysOf(pre.states) : \A symbol \in SymbolsOf(pre.states) :
                  Entry(machine.states, state, symbol) = Entry(pre.states, state, symbol)
           /\ get_state_info(machine) = StateInfo(q0, 0, <<BLANK_SYMBOL>>, 0)
           /\ machine.history = <<>>
    /\ op = "apply_transitions" => gui.table_editor.machine = <<>>

\* C21: k consecutive successful steps followed by k consecutive step_back
\* calls, k at most MAX_HISTORY_LEN, leave current state, head position, tape
\* and step count as they were before the first of the steps, each undo
\* returning True, also when the history was full before the steps.
C21_UndoIsLifo ==
    (trail # <<>> /\ trail[1].undos > 0) =>
        /\ op = "step_back"
        /\ result = "1"
        /\ trail[1].undos = trail[1].steps =>
               get_state_info(machine) = trail[1].info

\* MAX_HISTORY_LEN steps taken on a full history, all of them undone
C21_Witness ==
    /\ trail # <<>>
    /\ trail[1].steps = MAX_HISTORY_LEN
    /\ trail[1].undos = MAX_HISTORY_LEN
    /\ trail[1].info.step_count >= MAX_HISTORY_LEN
    /\ Len(machine.history) = 0
    /\ machine.step_count = trail[1].info.step_count

\* C22: a step that raises InvalidStateError leaves current state, head
\* position and step count as before the step and has pushed the pre-step
\* snapshot onto the history (evicting the oldest entry when the history was
\* full); a step_back that follows at once returns True and restores tape,
\* current state, head position and step count to their pre-step values.
C22_FailedStepUndo ==
    (op = "run_transition" /\ result = "InvalidStateError") =>
        /\ machine.current_state = pre.current_state
        /\ machine.head_position = pre.head_position
        /\ machine.step_count = pre.step_count
        /\ machine.history =
               Append(IF Len(pre.history) = MAX_HISTORY_LEN
                      THEN Tail(pre.history)
                      ELSE pre.history,
                      get_state_info(pre))
        /\ step_back(machine).ret = "1"
        /\ get_state_info(step_back(machine).m) = get_state_info(pre)

\* a failed step on a full history that has overwritten the cell under the head
C22_Witness ==
    /\ op = "run_transition"
    /\ result = "InvalidStateError"
    /\ Len(pre.history) = MAX_HISTORY_LEN
    /\ machine.tape # pre.tape
    /\ machine.history[1] # pre.history[1]

\* C23: only save_tape changes the snapshot slot: run_transition, run,
\* step_back, set_tape, new_transition and load_tape leave it as it was, and
\* save_tape puts the state at the call into it; load_tape yields the saved
\* values every time it is called; save_tape and load_tape leave the history
\* and the table as they were.
C23_SnapshotSlot ==
    /\ op \in {"run_transition", "run", "step_back", "set_tape", "new_transition",
               "load_tape"} =>
           machine.saved_state = pre.saved_state
    /\ op = "save_tape" => machine.saved_state = <<get_state_info(pre)>>
    /\ (op = "load_tape" /\ pre.saved_state # <<>>) =>
           /\ get_state_info(machine) = pre.saved_state[1]
           /\ get_state_info(load_tape(machine).m) = pre.saved_state[1]
           /\ load_tape(machine).m.saved_state = pre.saved_state
    /\ op \in {"save_tape", "load_tape"} =>
           /\ machine.history = pre.history
           /\ machine.states = pre.states

\* a restore after steps that wrote to the live tape: the saved tape differs
\* from the tape the steps left
C23_Witness ==
    /\ op = "load_tape"
    /\ pre.saved_state # <<>>
    /\ pre.saved_state[1].tape # pre.tape
    /\ pre.saved_state[1].step_count < pre.step_count
    /\ pre.history # <<>>
    /\ machine.tape = pre.saved_state[1].tape

\* C24: after every engine call q0 and the current state are keys of the
\* table, and so is the state recorded in every history entry and in the saved
\* snapshot; a step returns 0 or 1 or raises NoTransitionError or
\* InvalidStateError, never the KeyError of a current state without a row.
C24_KnownStates ==
    /\ HasKey(machine.states, q0)
    /\ HasKey(machine.states, machine.current_state)
    /\ \A i \in 1..Len(machine.history) :
           HasKey(machine.states, machine.history[i].current_state)
    /\ machine.saved_state # <<>> =>
           HasKey(machine.states, machine.saved_state[1].current_state)
    /\ op = "run_transition" =>
           result \in {"0", "1", "NoTransitionError", "InvalidStateError"}
    /\ op = "run" => result # "KeyError"

\* a step taken in q1, with q1 recorded in the history and in the snapshot
C24_Witness ==
    /\ op = "run_transition"
    /\ result \in {"0", "1"}
    /\ pre.current_state = q1
    /\ machine.saved_state # <<>>
    /\ machine.saved_state[1].current_state = q1
    /\ \E i \in 1..Len(machine.history) : machine.history[i].current_state = q1

\* the symbols the instructions of a table write
WrittenBy(states) ==
    UNION { { states[i].value[j].value.write_symbol : j \in 1..Len(states[i].value) } :
            i \in 1..Len(states) }

\* C25: after every engine call the known symbols are the blank symbol
\* together with the read symbols that have an entry in the table, nothing
\* more and nothing less.
C25_KnownSymbols ==
    /\ BLANK_SYMBOL \in machine.symbols
    /\ machine.symbols = {BLANK_SYMBOL} \cup SymbolsOf(machine.states)

\* ONE is on the tape and is written by an instruction of the table, and is
\* not a known symbol
C25_Witness ==
    /\ InSeq(ONE, machine.tape)
    /\ ONE \in WrittenBy(machine.states)
    /\ ONE \notin machine.symbols
    /\ op = "run_transition"
    /\ result = "1"

\* the auto_run callbacks pending in root.after
Pending(after) == Len(SelectSeq(after, LAMBDA c : c = "auto_run"))

\* at most one auto_run callback is pending
OnePending == Pending(gui.after) <= 1

\* a timer callback that started while is_running was false left the machine
\* as it was
NoStepWhilePaused ==
    (op = "auto_run" /\ trail # <<>> /\ ~trail[1].is_running) => machine = pre

\* C26: at most one auto_run timer callback is pending at any time, whatever
\* the order of Run/Pause, Step, Step Back and timer callbacks, and a timer
\* callback that finds is_running false executes no machine step.
C26_SingleChain == OnePending /\ NoStepWhilePaused

====
